---- MODULE Spec2Model ----
(***************************************************************************)
(* chrome-nano: a browser extension that edits the focused text field of a *)
(* page with an external editor reached through a native messaging host.   *)
(*                                                                         *)
(* The repository holds several revisions of the same program.  The model  *)
(* keeps them apart with the variable rev:                                 *)
(*   "script"  src/src/script.js             editTextArea (content script) *)
(*   "bgA"     src/src/background.js 75-126  editTextArea (injected)       *)
(*   "p002"    src/unnamed/part_002  75-99   editTextArea (injected)       *)
(*   "p000"    src/unnamed/part_000  73-98   editTextArea (port based)     *)
(* The router (one-shot messages, long-lived connections) is the one of    *)
(* src/src/background.js 42-51, 160-182; the native bridge is nano.js.     *)
(* The selector based flow of src/src/background.js 225-255 has its own    *)
(* specification, SpecSelector, over a document tree.                      *)
(* SpecFrames runs one gesture in a tab of several frames, SpecSettings    *)
(* the lifecycle hooks and the settings, SpecShadow getActiveElement over  *)
(* nested shadow roots, SpecFilter the filter variant of nano.js, and      *)
(* SpecLive is Spec with the fairness of the event loop.                   *)
(***************************************************************************)
EXTENDS Integers, Sequences, FiniteSets, TLC

VARIABLES
  rev,          \* which revision of editTextArea runs in the page
  kind,         \* class of the focused element: "input", "editable", "other"
  value,        \* the element's value (input/textarea) or text (contenteditable)
  selStart,     \* element.selectionStart
  selEnd,       \* element.selectionEnd
  selDir,       \* element.selectionDirection
  pageSel,      \* window.getSelection(): the sequence of its ranges
  clipboard,    \* the system clipboard
  effects,      \* the write-back calls the session has made, in order
  pasteTimer,   \* the pending setTimeout of script.js:73 (its text), or Undefined
  pastes,       \* the paste events dispatched on the element, in order
  focusListener,\* the once-listener of background.js:107 (its text), or Undefined
  pc,           \* position of the edit session
  target,       \* the target the session resolved: "input", "editable", "selection", "none"
  selectedText, \* the text the session extracted
  bound,        \* the arguments bound by boundSelection
  result,       \* the response the session's continuation received
  msgs,         \* one-shot messages: sender, payload, state, response
  native,       \* invocations of the native host: message, input, state
  routerErrors, \* unhandled rejections / exceptions in the service worker
  ports,        \* long-lived connections
  userMoves,    \* number of selection changes the user made while waiting
  snapshot,     \* history: the page as it was when the gesture started
  doc,          \* SpecSelector: the document tree
  active,       \* SpecSelector: document.activeElement
  flow,         \* SpecSelector: the state of onAction (selector based flow)
  tab,          \* SpecFrames: the gesture and the frames of the tab
  storage,      \* chrome.storage.sync: the persisted settings, key -> value
  nano,         \* the in-memory Editor Config (default export of nano.js)
  sw,           \* SpecSettings: lifecycle hooks and notifications of the service worker
  shadow,       \* SpecShadow: the chain of focused elements through shadow roots
  filter        \* SpecFilter: one run of the filter variant of nano.js

domVars    == <<kind, value, selStart, selEnd, selDir, pageSel, clipboard>>
sessVars   == <<effects, pasteTimer, pastes, focusListener, pc, target, selectedText, bound, result>>
routerVars == <<msgs, native, routerErrors, ports>>
treeVars   == <<doc, active, flow, tab, storage, nano, sw, shadow, filter>>
vars == <<rev, domVars, sessVars, routerVars, userMoves, snapshot, treeVars>>

(***************************************************************************)
(* Values                                                                  *)
(***************************************************************************)
\* JavaScript's undefined, where a field is absent.
Undefined == "<undefined>"
\* status of a response that carries none (result.status is undefined).
NoStatus == -1

Texts == {"", "a", "ab", "\n"}
\* The revisions of the message based editTextArea.
Revisions == {"script", "bgA", "p002", "p000"}
Kinds == {"input", "editable", "other"}
Directions == {"forward", "backward"}
\* The selections a page can hold; the Selection API keeps at most one range.
PageSelections == {<< >>, <<"caret">>, <<"range">>}
\* Text of the page's non-collapsed range.
RangeText == "b"

\* Bounds of the model.
MaxPeerMsgs == 1
MaxPorts == 1
MaxPosts == 1
MaxUserMoves == 1

Min(a, b) == IF a < b THEN a ELSE b

NoBound == [start |-> 0, end |-> 0, direction |-> Undefined]
NoResult == [type |-> Undefined, message |-> Undefined, status |-> NoStatus, output |-> Undefined]

CommandResult(status, output) ==
  [type |-> Undefined, message |-> Undefined, status |-> status, output |-> output]

ErrorResponse(message) ==
  [type |-> "error", message |-> message, status |-> NoStatus, output |-> Undefined]

(***************************************************************************)
(* DOM primitives used by the scripts                                      *)
(***************************************************************************)
\* selection.type
SelectionType(sel) ==
  IF sel = << >> THEN "None"
  ELSE IF sel[1] = "caret" THEN "Caret" ELSE "Range"

\* selection.toString(), the element's text once all its children are selected
SelectionToString(sel, text) ==
  IF sel = << >> \/ sel[1] = "caret" THEN ""
  ELSE IF sel[1] = "all" THEN text ELSE RangeText

\* selection.addRange(range): ignored when the selection already has a range
AddRange(sel, range) == IF sel = << >> THEN <<range>> ELSE sel

\* selection.removeAllRanges() followed by addRange for every saved range;
\* before it, selectAllChildren has made the selection <<"all">>.
RECURSIVE AddRanges(_, _)
AddRanges(sel, ranges) ==
  IF ranges = << >> THEN sel
  ELSE AddRanges(AddRange(sel, Head(ranges)), Tail(ranges))

\* selectRanges without its removeAllRanges: the ranges are added to the
\* selection of all children.
selectRanges_NoRemove(ranges) == AddRanges(<<"all">>, ranges)

selectRanges(ranges) == AddRanges(<< >>, ranges)

\* element.setSelectionRange(start, end, direction): offsets are clamped to
\* the length of the value, and start never exceeds end.
SetSelectionRange(text, b) ==
  LET e == Min(b.end, Len(text))
      s == Min(Min(b.start, Len(text)), e)
  IN [start |-> s, end |-> e, direction |-> b.direction]

\* element.value = text: a different value moves the caret to the end of the
\* text and resets the direction; the same value leaves the selection alone.
ValueSetter(old, new, cur) ==
  IF new = old THEN cur
  ELSE [start |-> Len(new), end |-> Len(new), direction |-> "none"]

CurrentSelection == [start |-> selStart, end |-> selEnd, direction |-> selDir]

\* The page before the session touched it.
Snapshot ==
  [value |-> value, selection |-> CurrentSelection, pageSel |-> pageSel, clipboard |-> clipboard]

NoSnapshot ==
  [value |-> Undefined, selection |-> NoBound, pageSel |-> << >>, clipboard |-> Undefined]

\* `${x}` in a template literal
Interpolate(x) == IF x = Undefined THEN "undefined" ELSE x

(***************************************************************************)
(* Initial states: a page with one focused element, an idle session, an    *)
(* idle service worker.                                                    *)
(***************************************************************************)
TabOff == [gesture |-> "off"]

\* The Editor Config as nano.js:12-13 (and 33-34) creates it.
NanoDefault == ("command" :> "xterm") @@ ("args" :> <<"-e", "nano">>)

\* An object without own properties.
EmptyObject == [k \in {} |-> Undefined]

ShadowOff == [chain |-> << >>]

FilterOff == [pc |-> "off"]

\* Outside SpecSettings nothing is stored and no hook runs.
SettingsIdle ==
  /\ storage = EmptyObject
  /\ nano = NanoDefault
  /\ sw = [hook |-> "off"]
  /\ shadow = ShadowOff
  /\ filter = FilterOff

TreeIdle ==
  /\ doc = << >>
  /\ active = 0
  /\ flow = [pc |-> "off"]
  /\ tab = TabOff
  /\ SettingsIdle

Init ==
  /\ rev \in Revisions
  /\ kind \in Kinds
  /\ value \in Texts
  /\ selDir \in (IF kind = "input" THEN Directions ELSE {"none"})
  /\ selEnd \in (IF kind = "input" THEN 0..Len(value) ELSE {0})
  /\ selStart \in 0..selEnd
  /\ pageSel \in PageSelections
  /\ clipboard = Undefined
  /\ effects = << >>
  /\ pasteTimer = Undefined
  /\ pastes = << >>
  /\ focusListener = Undefined
  /\ pc = "Idle"
  /\ target = Undefined
  /\ selectedText = Undefined
  /\ bound = NoBound
  /\ result = NoResult
  /\ msgs = << >>
  /\ native = << >>
  /\ routerErrors = 0
  /\ ports = << >>
  /\ userMoves = 0
  /\ snapshot = NoSnapshot
  /\ TreeIdle

(***************************************************************************)
(* Text Locator: the target each revision resolves, and the input it sends *)
(***************************************************************************)
\* ResolveTarget with script.js taking any page selection as a target.
ResolveTarget_AnySelection(r, k, sel) ==
  CASE k = "input" -> "input"
    [] k = "editable" /\ r # "p000" -> "editable"
    [] k = "other" /\ r \in {"script", "bgA"} -> "selection"
    [] OTHER -> "none"

\* script.js:38-88, background.js:88-124, part_002:79-98, part_000:78-97
ResolveTarget(r, k, sel) ==
  CASE k = "input" -> "input"
    [] k = "editable" /\ r # "p000" -> "editable"
    [] k = "other" /\ r = "script" /\ SelectionType(sel) = "Range" -> "selection"
    [] k = "other" /\ r = "bgA" -> "selection"
    [] OTHER -> "none"

\* The `input` field of the request (Undefined when the field is omitted).
RequestInput(r, t, text, sel) ==
  CASE t = "input" -> text
    [] t = "editable" /\ r = "p002" -> Undefined
    [] t = "editable" -> SelectionToString(<<"all">>, text)
    [] t = "selection" /\ SelectionType(sel) = "Range" -> SelectionToString(sel, text)
    [] OTHER -> Undefined

\* The request of script.js:7-11 and of background.js:92,105,114,119.
EditRequest(input) == [type |-> "action", action |-> "editTextArea", input |-> input]

OneShot(from, m) == [from |-> from, msg |-> m, state |-> "sent", response |-> NoResult]

\* Does the revision bind the element's selection before the round trip?
BindsSelection(r, t) == t = "input" /\ r \in {"bgA", "p002", "p000"}

\* Does the revision select all children of a contenteditable to read it?
ReadsBySelection(r, t) == t = "editable" /\ r \in {"script", "bgA"}

(***************************************************************************)
(* editTextArea, up to its await (one-shot revisions)                      *)
(***************************************************************************)
EditTextAreaStart ==
  /\ pc = "Idle"
  /\ rev \in {"script", "bgA", "p002"}
  /\ LET t == ResolveTarget(rev, kind, pageSel)
         input == RequestInput(rev, t, value, pageSel)
     IN /\ target' = t
        /\ bound' = IF BindsSelection(rev, t) THEN CurrentSelection ELSE bound
        \* the live selection is replaced to read the text, then restored
        /\ pageSel' = IF ReadsBySelection(rev, t) THEN selectRanges(pageSel) ELSE pageSel
        /\ IF t = "none"
           THEN /\ pc' = "NoTarget"
                /\ UNCHANGED <<selectedText, msgs>>
           ELSE /\ pc' = "AwaitingResult"
                /\ selectedText' = input
                /\ msgs' = Append(msgs, OneShot("session", EditRequest(input)))
  /\ UNCHANGED <<rev, kind, value, selStart, selEnd, selDir, clipboard>>
  /\ UNCHANGED <<effects, pasteTimer, pastes, focusListener, result>>
  /\ UNCHANGED <<native, routerErrors, ports, userMoves, treeVars>>
  /\ snapshot' = Snapshot

(***************************************************************************)
(* Command Router: one-shot messages (background.js:42-51, 160-169)        *)
(***************************************************************************)
\* A response callback shared by all requests: the response goes to the
\* request received last.
sendResponse_Latest(i, response) ==
  [msgs EXCEPT ![Len(msgs)].state = "answered", ![Len(msgs)].response = response]

\* sendResponse(response) for message i
sendResponse(i, response) ==
  [msgs EXCEPT ![i].state = "answered", ![i].response = response]

\* A started invocation of the native host (nano.js:15-17 calling nano.js:3-10)
\* for one-shot message i (port 0) or for a message posted on port p (msg 0).
NativeCall(i, p, input) ==
  [msg |-> i, port |-> p, input |-> input, state |-> "pending",
   command |-> nano["command"], args |-> nano["args"], result |-> NoResult]

\* onActionMessage opening the editor whatever the action.
onActionMessage_OpensAny(i, message) ==
  /\ native' = Append(native, NativeCall(i, 0, message.input))
  /\ msgs' = [msgs EXCEPT ![i].state = "routed"]

\* onActionMessage(message, sender, sendResponse)
onActionMessage(i, message) ==
  IF message.action = "editTextArea"
  THEN /\ native' = Append(native, NativeCall(i, 0, message.input))
       /\ msgs' = [msgs EXCEPT ![i].state = "routed"]
  ELSE /\ msgs' = sendResponse(i, ErrorResponse("Unknown action: " \o Interpolate(message.action)))
       /\ UNCHANGED native

\* The response of the listener's default branch.
UnknownRequest == ErrorResponse("Unknown request")

\* chrome.runtime.onMessage listener
OnMessage(i) ==
  /\ msgs[i].state = "sent"
  /\ LET message == msgs[i].msg
     IN IF message.type = "action"
        THEN onActionMessage(i, message)
        ELSE /\ msgs' = sendResponse(i, UnknownRequest)
             /\ UNCHANGED native
  /\ UNCHANGED <<rev, domVars, sessVars, routerErrors, ports, userMoves, snapshot, treeVars>>

(***************************************************************************)
(* Native Bridge (nano.js:3-18): the host answers, or the call is rejected *)
(***************************************************************************)
\* The promise of sendNativeMessage resolves; `.then(sendResponse)` runs.
NativeResolve(j, status, output) ==
  /\ native[j].state = "pending"
  /\ native' = [native EXCEPT ![j].state = "resolved",
                              ![j].result = CommandResult(status, output)]
  /\ IF native[j].port = 0
     THEN /\ msgs' = sendResponse(native[j].msg, CommandResult(status, output))
          /\ UNCHANGED ports
     ELSE \* part_000:47, `port.postMessage(result)`
          /\ ports' = [ports EXCEPT ![native[j].port].received =
                                      Append(@, CommandResult(status, output))]
          /\ UNCHANGED msgs
  /\ UNCHANGED <<rev, domVars, sessVars, routerErrors, userMoves, snapshot, treeVars>>

\* The host is unreachable or fails at protocol level: the promise is
\* rejected, `.then(sendResponse)` has no rejection handler, so the rejection
\* is unhandled in the service worker and sendResponse is never called.
NativeReject(j) ==
  /\ native[j].state = "pending"
  /\ native' = [native EXCEPT ![j].state = "rejected"]
  /\ routerErrors' = routerErrors + 1
  /\ UNCHANGED <<rev, domVars, sessVars, msgs, ports, userMoves, snapshot, treeVars>>

\* The message channel of a request that will never be answered is closed:
\* the sender's sendMessage promise is rejected.  In the session this is an
\* exception thrown at the await of editTextArea.
ChannelClosed(i) ==
  /\ msgs[i].state = "routed"
  /\ \E j \in DOMAIN native : native[j].msg = i /\ native[j].state = "rejected"
  /\ msgs' = [msgs EXCEPT ![i].state = "closed"]
  /\ IF msgs[i].from = "session"
     THEN pc' = "Threw"
     ELSE UNCHANGED pc
  /\ UNCHANGED <<rev, domVars, effects, pasteTimer, pastes, focusListener, target, selectedText, bound, result>>
  /\ UNCHANGED <<native, routerErrors, ports, userMoves, snapshot, treeVars>>

(***************************************************************************)
(* editTextArea, after its await: the accept policy of each revision       *)
(***************************************************************************)
\* ShouldApply with the exit status ignored for inputs in script.js.
ShouldApply_IgnoresStatus(r, t, res, text) ==
  CASE t = "input" /\ r = "script" -> res.output # text
    [] t = "input" -> res.status = 0
    [] t = "editable" /\ r = "script" -> res.status = 0 /\ res.output # text
    [] t = "editable" /\ r = "bgA" ->
         /\ res.status = 0
         /\ Len(res.output) > 0
         /\ res.output # "\n"
         /\ res.output # text
    [] t = "editable" /\ r = "p002" -> res.status = 0
    [] OTHER -> FALSE

\* script.js:43-46, 66-69; background.js:93, 106; part_002:84, 94; part_000:83
ShouldApply(r, t, res, text) ==
  CASE t = "input" /\ r = "script" -> res.status = 0 /\ res.output # text
    [] t = "input" -> res.status = 0
    [] t = "editable" /\ r = "script" -> res.status = 0 /\ res.output # text
    [] t = "editable" /\ r = "bgA" ->
         /\ res.status = 0
         /\ Len(res.output) > 0
         /\ res.output # "\n"
         /\ res.output # text
    [] t = "editable" /\ r = "p002" -> res.status = 0
    [] OTHER -> FALSE

\* The write-back of an input/textarea: script.js:47-49 focuses, sets the
\* value and dispatches the event; background.js:94-96 (part_002:85-87,
\* part_000:84-86) sets the value, calls boundSelection and dispatches.
WriteInput(res) ==
  LET sel == IF rev = "script"
             THEN ValueSetter(value, res.output, CurrentSelection)
             ELSE SetSelectionRange(res.output, bound)
  IN /\ value' = res.output
     /\ selStart' = sel.start
     /\ selEnd' = sel.end
     /\ selDir' = sel.direction
     /\ effects' = effects \o (IF rev = "script"
                               THEN <<"focus", "value", "input">>
                               ELSE <<"value", "setSelectionRange", "input">>)
     /\ UNCHANGED <<pageSel, clipboard, pasteTimer, pastes, focusListener>>

\* The ClipboardEvent of script.js:14-25, with the selection it meets.
PasteEvent(text, sel) ==
  [type |-> "paste", data |-> text, bubbles |-> TRUE, cancelable |-> TRUE,
   selection |-> sel]

\* The write-back of a contenteditable: script.js:70-78, background.js:107,
\* part_002:95.
WriteEditable(res) ==
  /\ CASE rev = "script" ->
            /\ pageSel' = <<"all">>
            /\ pasteTimer' = res.output
            /\ clipboard' = res.output
            /\ effects' = effects \o <<"focus", "selectAllChildren", "setTimeout", "clipboard">>
            /\ UNCHANGED <<focusListener, pastes>>
       [] rev = "bgA" ->
            /\ focusListener' = res.output
            /\ effects' = effects \o <<"addEventListener">>
            /\ UNCHANGED <<pageSel, pasteTimer, pastes, clipboard>>
       [] OTHER ->
            /\ clipboard' = res.output
            /\ effects' = effects \o <<"clipboard">>
            /\ UNCHANGED <<pageSel, pasteTimer, pastes, focusListener>>
  /\ UNCHANGED <<value, selStart, selEnd, selDir>>

\* The continuation of editTextArea once sendMessage has resolved.
EditTextAreaResume(i) ==
  /\ pc = "AwaitingResult"
  /\ msgs[i].from = "session"
  /\ msgs[i].state = "answered"
  /\ msgs' = [msgs EXCEPT ![i].state = "delivered"]
  /\ result' = msgs[i].response
  /\ IF ShouldApply(rev, target, msgs[i].response, selectedText)
     THEN /\ pc' = "Applied"
          /\ IF target = "input"
             THEN WriteInput(msgs[i].response)
             ELSE WriteEditable(msgs[i].response)
     ELSE /\ pc' = "Discarded"
          /\ UNCHANGED <<value, selStart, selEnd, selDir, pageSel, clipboard>>
          /\ UNCHANGED <<effects, pasteTimer, pastes, focusListener>>
  /\ UNCHANGED <<rev, kind, target, selectedText, bound>>
  /\ UNCHANGED <<native, routerErrors, ports, userMoves, snapshot, treeVars>>

\* script.js:14-25, 73-75: the timer fires and the paste event is dispatched.
dispatchPaste ==
  /\ pasteTimer # Undefined
  /\ effects' = Append(effects, "paste")
  /\ pastes' = Append(pastes, PasteEvent(pasteTimer, pageSel))
  /\ pasteTimer' = Undefined
  /\ UNCHANGED <<rev, domVars, focusListener, pc, target, selectedText, bound, result>>
  /\ UNCHANGED <<routerVars, userMoves, snapshot, treeVars>>

\* background.js:107: the element is focused again and the once-listener
\* writes the output to the clipboard.
FocusListenerRuns ==
  /\ focusListener # Undefined
  /\ clipboard' = focusListener
  /\ effects' = Append(effects, "clipboard")
  /\ focusListener' = Undefined
  /\ UNCHANGED <<rev, kind, value, selStart, selEnd, selDir, pageSel>>
  /\ UNCHANGED <<pasteTimer, pastes, pc, target, selectedText, bound, result>>
  /\ UNCHANGED <<routerVars, userMoves, snapshot, treeVars>>

\* The user (or a page script) changes the selection of the page during the
\* delay of the paste timer.
UserSelectsInPage(sel) ==
  /\ pasteTimer # Undefined
  /\ userMoves < MaxUserMoves
  /\ sel # pageSel
  /\ pageSel' = sel
  /\ userMoves' = userMoves + 1
  /\ UNCHANGED <<rev, kind, value, selStart, selEnd, selDir, clipboard, sessVars>>
  /\ UNCHANGED <<routerVars, snapshot, treeVars>>

\* The user moves the caret or the selection of the input while the editor
\* is open.
UserSelects(s, e, d) ==
  /\ pc = "AwaitingResult"
  /\ kind = "input"
  /\ userMoves < MaxUserMoves
  /\ <<s, e, d>> # <<selStart, selEnd, selDir>>
  /\ selStart' = s
  /\ selEnd' = e
  /\ selDir' = d
  /\ userMoves' = userMoves + 1
  /\ UNCHANGED <<rev, kind, value, pageSel, clipboard, sessVars, routerVars, snapshot, treeVars>>

(***************************************************************************)
(* Other senders of one-shot messages (any extension page or script)       *)
(***************************************************************************)
Message(type, action, input) == [type |-> type, action |-> action, input |-> input]

PeerMessages ==
  { Message("bogus", Undefined, Undefined),
    Message(Undefined, "editTextArea", "a"),
    Message("action", "other", Undefined),
    Message("action", Undefined, "a"),
    Message("action", "editTextArea", "a") }

\* The request of an edit session, as a peer sends it.
ActionRequest == Message("action", "editTextArea", "a")

PeerCount == Cardinality({i \in DOMAIN msgs : msgs[i].from = "peer"})

PeerSendsMessage(m) ==
  /\ PeerCount < MaxPeerMsgs
  /\ msgs' = Append(msgs, OneShot("peer", m))
  /\ UNCHANGED <<rev, domVars, sessVars, native, routerErrors, ports, userMoves, snapshot, treeVars>>

(***************************************************************************)
(* Command Router: long-lived connections (background.js:174-182)          *)
(***************************************************************************)
PortNames == {"options", "editor", "bogus"}

\* A port as chrome.runtime.connect({ name }) creates it.  received: what the
\* service worker posted to the opener; seen: how many of them the opener's
\* listener has handled; posted: what the opener posted; routed: how many of
\* them the service worker has been handed.
Port(name, owner) ==
  [name |-> name, owner |-> owner, state |-> "connecting", handler |-> "none",
   received |-> << >>, seen |-> 0, posted |-> << >>, routed |-> 0]

\* optionsWorker.onConnect(port): ./options/service_worker.js is not part of
\* the sources; it is taken to register its own listeners on the port.
optionsWorkerOnConnect(port) == [port EXCEPT !.handler = "options"]

\* The listener with a case 'editor' routed to the editor worker's onConnect
\* (part_000:33-36).
onConnectListener_RoutesEditor(port) ==
  CASE port.name = "options" -> optionsWorkerOnConnect(port)
    [] port.name = "editor" -> [port EXCEPT !.handler = "editor"]
    [] OTHER -> [port EXCEPT !.received =
          Append(@, ErrorResponse("Unknown type of connection: " \o Interpolate(port.name)))]

\* chrome.runtime.onConnect listener
onConnectListener(port) ==
  IF port.name = "options"
  THEN optionsWorkerOnConnect(port)
  ELSE [port EXCEPT !.received =
          Append(@, ErrorResponse("Unknown type of connection: " \o Interpolate(port.name)))]

OnConnect(p) ==
  /\ ports[p].state = "connecting"
  /\ ports' = [ports EXCEPT ![p] = [onConnectListener(ports[p]) EXCEPT !.state = "open"]]
  /\ UNCHANGED <<rev, domVars, sessVars, msgs, native, routerErrors, userMoves, snapshot, treeVars>>

\* What an opener posts on a port: the message of part_000:89-92.
PostedMessages == {Message("open", Undefined, "a")}

PeerPorts == {p \in DOMAIN ports : ports[p].owner = "peer"}

PeerConnects(name) ==
  /\ Cardinality(PeerPorts) < MaxPorts
  /\ ports' = Append(ports, Port(name, "peer"))
  /\ UNCHANGED <<rev, domVars, sessVars, msgs, native, routerErrors, userMoves, snapshot, treeVars>>

PeerPosts(p, m) ==
  /\ ports[p].owner = "peer"
  /\ ports[p].state # "closed"
  /\ Len(ports[p].posted) < MaxPosts
  /\ ports' = [ports EXCEPT ![p].posted = Append(@, m)]
  /\ UNCHANGED <<rev, domVars, sessVars, msgs, native, routerErrors, userMoves, snapshot, treeVars>>

\* The service worker's side of a port is handed the next posted message.
\* Only a handler that registered port.onMessage reacts: the editor worker's
\* onMessage (part_000:46-48) opens the editor; without a listener the
\* message is dropped.
PortOnMessage(p) ==
  /\ ports[p].state = "open"
  /\ ports[p].routed < Len(ports[p].posted)
  /\ ports' = [ports EXCEPT ![p].routed = @ + 1]
  /\ IF ports[p].handler = "editor"
     THEN native' = Append(native, NativeCall(0, p, ports[p].posted[ports[p].routed + 1].input))
     ELSE UNCHANGED native
  /\ UNCHANGED <<rev, domVars, sessVars, msgs, routerErrors, userMoves, snapshot, treeVars>>

(***************************************************************************)
(* editTextArea of the port based revision (part_000:73-98)                *)
(***************************************************************************)
\* chrome.runtime.connect({ name: 'editor' }) of part_000:75
EditorPort == Port("editor", "session")

EditTextAreaConnect ==
  /\ pc = "Idle"
  /\ rev = "p000"
  /\ LET t == ResolveTarget(rev, kind, pageSel)
         input == RequestInput(rev, t, value, pageSel)
         port == EditorPort
     IN /\ target' = t
        /\ IF t = "input"
           THEN /\ bound' = CurrentSelection
                /\ selectedText' = input
                /\ ports' = Append(ports, [port EXCEPT !.posted = <<Message("open", Undefined, input)>>])
                /\ pc' = "AwaitingResult"
           ELSE \* port.disconnect()
                /\ ports' = Append(ports, [port EXCEPT !.state = "closed"])
                /\ pc' = "NoTarget"
                /\ UNCHANGED <<bound, selectedText>>
  /\ UNCHANGED <<rev, domVars, effects, pasteTimer, pastes, focusListener, result>>
  /\ UNCHANGED <<msgs, native, routerErrors, userMoves, treeVars>>
  /\ snapshot' = Snapshot

\* port.onMessage listener of part_000:82-88
EditTextAreaOnPortMessage(p) ==
  /\ rev = "p000"
  /\ pc \in {"AwaitingResult", "Applied", "Discarded"}
  /\ ports[p].owner = "session"
  /\ ports[p].seen < Len(ports[p].received)
  /\ ports' = [ports EXCEPT ![p].seen = @ + 1]
  /\ LET res == ports[p].received[ports[p].seen + 1]
     IN /\ result' = res
        /\ IF ShouldApply(rev, target, res, selectedText)
           THEN /\ pc' = "Applied"
                /\ WriteInput(res)
           ELSE /\ pc' = IF pc = "Applied" THEN pc ELSE "Discarded"
                /\ UNCHANGED <<value, selStart, selEnd, selDir, pageSel, clipboard>>
                /\ UNCHANGED <<effects, pasteTimer, pastes, focusListener>>
  /\ UNCHANGED <<rev, kind, target, selectedText, bound>>
  /\ UNCHANGED <<msgs, native, routerErrors, userMoves, snapshot, treeVars>>

(***************************************************************************)
(* The specification of the edit sessions and of the router                *)
(***************************************************************************)
Statuses == {0, 1}

\* The native host answers with any exit status and any text.
HostAnswers ==
  \E j \in DOMAIN native : \E st \in Statuses : \E out \in Texts : NativeResolve(j, st, out)

HostFails == \E j \in DOMAIN native : NativeReject(j)

Router ==
  \/ \E i \in DOMAIN msgs : OnMessage(i)
  \/ \E p \in DOMAIN ports : OnConnect(p)
  \/ \E p \in DOMAIN ports : PortOnMessage(p)

Next ==
  \/ EditTextAreaStart
  \/ EditTextAreaConnect
  \/ Router
  \/ HostAnswers
  \/ HostFails
  \/ \E i \in DOMAIN msgs : ChannelClosed(i)
  \/ \E i \in DOMAIN msgs : EditTextAreaResume(i)
  \/ \E p \in DOMAIN ports : EditTextAreaOnPortMessage(p)
  \/ dispatchPaste
  \/ FocusListenerRuns
  \/ \E d \in Directions : \E e \in 0..Len(value) : \E s \in 0..e : UserSelects(s, e, d)
  \/ \E sel \in PageSelections : UserSelectsInPage(sel)

Spec == Init /\ [][Next]_vars

(***************************************************************************)
(* The specification of the router alone: any extension page sends one-shot*)
(* messages and opens connections; no edit session runs.                   *)
(***************************************************************************)
InitRouter ==
  /\ rev = "script"
  /\ kind = "other"
  /\ value = ""
  /\ selDir = "none"
  /\ selEnd = 0
  /\ selStart = 0
  /\ pageSel = << >>
  /\ clipboard = Undefined
  /\ effects = << >>
  /\ pasteTimer = Undefined
  /\ pastes = << >>
  /\ focusListener = Undefined
  /\ pc = "Idle"
  /\ target = Undefined
  /\ selectedText = Undefined
  /\ bound = NoBound
  /\ result = NoResult
  /\ msgs = << >>
  /\ native = << >>
  /\ routerErrors = 0
  /\ ports = << >>
  /\ userMoves = 0
  /\ snapshot = NoSnapshot
  /\ TreeIdle

NextRouter ==
  \/ \E m \in PeerMessages : PeerSendsMessage(m)
  \/ \E name \in PortNames : PeerConnects(name)
  \/ \E p \in DOMAIN ports : \E m \in PostedMessages : PeerPosts(p, m)
  \/ Router
  \/ HostAnswers
  \/ HostFails
  \/ \E i \in DOMAIN msgs : ChannelClosed(i)

SpecRouter == InitRouter /\ [][NextRouter]_vars

TypeOK ==
  /\ rev \in Revisions \cup {"bgB"}
  /\ kind \in Kinds
  /\ value \in Texts
  /\ 0 <= selStart /\ selStart <= selEnd /\ selEnd <= Len(value)
  /\ pc \in {"Idle", "NoTarget", "AwaitingResult", "Applied", "Discarded", "Threw"}

(***************************************************************************)
(* The selector based flow (background.js:225-255) over a document tree    *)
(***************************************************************************)
\* doc is the sequence of the elements of the document; element 1 is
\* document.documentElement.  An element has a tag name, its parentElement
\* (0 for the document element), its `children` in order, and, for a text
\* control, a value and a selection.
MaxNodes == 5

Tags == {"HTML", "TEXTAREA"}

Element(tag, parent) ==
  [tag |-> tag, parent |-> parent, kids |-> << >>,
   value |-> IF tag = "TEXTAREA" THEN "a" ELSE Undefined,
   sel |-> IF tag = "TEXTAREA" THEN [start |-> 0, end |-> 1, direction |-> "forward"] ELSE NoBound]

\* Array.from(parent.children).indexOf(element) + 1
ChildIndex(d, e) ==
  CHOOSE k \in 1..Len(d[d[e].parent].kids) : d[d[e].parent].kids[k] = e

\* A selector `TAG > :nth-child(i1) > ... > :nth-child(ik)` is kept as its
\* type selector and the sequence of its indexes, the form a selector parser
\* gives it.
RECURSIVE computeSelector(_, _)
computeSelector(d, element) ==
  IF element = 1
  THEN [tag |-> d[1].tag, path |-> << >>]
  ELSE LET up == computeSelector(d, d[element].parent)
       IN [up EXCEPT !.path = Append(@, ChildIndex(d, element))]

\* element.matches(selector): the last compound is matched against the
\* element, the rest, through the child combinator, against its parent.
RECURSIVE Matches(_, _, _)
Matches(d, e, selector) ==
  IF selector.path = << >>
  THEN d[e].tag = selector.tag
  ELSE /\ d[e].parent # 0
       /\ ChildIndex(d, e) = selector.path[Len(selector.path)]
       /\ Matches(d, d[e].parent,
                  [selector EXCEPT !.path = SubSeq(@, 1, Len(@) - 1)])

\* The elements of the subtrees of a sequence of siblings, in document order.
RECURSIVE TreeOrder(_, _)
TreeOrder(d, siblings) ==
  IF siblings = << >> THEN << >>
  ELSE <<Head(siblings)>> \o TreeOrder(d, d[Head(siblings)].kids) \o TreeOrder(d, Tail(siblings))

RECURSIVE FirstMatch(_, _, _)
FirstMatch(d, order, selector) ==
  IF order = << >> THEN 0
  ELSE IF Matches(d, Head(order), selector) THEN Head(order)
  ELSE FirstMatch(d, Tail(order), selector)

\* document.querySelector(selector): the first match in document order, 0
\* for null.
querySelector(d, selector) == FirstMatch(d, TreeOrder(d, <<1>>), selector)

NoSelector == [tag |-> Undefined, path |-> << >>]

\* The elements that are in the document (a removed subtree is not).
RECURSIVE SeqToSet(_)
SeqToSet(q) == IF q = << >> THEN {} ELSE {Head(q)} \cup SeqToSet(Tail(q))

Elements(d) == SeqToSet(TreeOrder(d, <<1>>))

\* A sequence without one of its members.
RECURSIVE Without(_, _)
Without(q, e) ==
  IF q = << >> THEN << >>
  ELSE IF Head(q) = e THEN Tail(q) ELSE <<Head(q)>> \o Without(Tail(q), e)

FlowIdle ==
  [pc |-> "idle", uniqueSelector |-> NoSelector, input |-> Undefined,
   output |-> Undefined, readNode |-> 0, wroteNode |-> 0, error |-> "none",
   found |-> 0]

InitSelector ==
  /\ rev = "bgB"
  /\ kind = "other"
  /\ value = ""
  /\ selDir = "none"
  /\ selEnd = 0
  /\ selStart = 0
  /\ pageSel = << >>
  /\ clipboard = Undefined
  /\ effects = << >>
  /\ pasteTimer = Undefined
  /\ pastes = << >>
  /\ focusListener = Undefined
  /\ pc = "Idle"
  /\ target = Undefined
  /\ selectedText = Undefined
  /\ bound = NoBound
  /\ result = NoResult
  /\ msgs = << >>
  /\ native = << >>
  /\ routerErrors = 0
  /\ ports = << >>
  /\ userMoves = 0
  /\ snapshot = NoSnapshot
  /\ doc = <<Element("HTML", 0)>>
  /\ active = 1
  /\ flow = FlowIdle
  /\ tab = TabOff
  /\ SettingsIdle

pageVars == <<rev, domVars, sessVars, msgs, ports, userMoves, snapshot, tab, storage, nano, sw,
              shadow, filter>>

\* A page script appends a new element to an element of the document.
AppendChild(parent, tag) ==
  /\ Len(doc) < MaxNodes
  /\ parent \in Elements(doc)
  /\ doc' = Append([doc EXCEPT ![parent].kids = Append(@, Len(doc) + 1)],
                   Element(tag, parent))
  /\ UNCHANGED <<pageVars, native, routerErrors, active, flow>>

\* Between the read and the write of the flow, a page script inserts a new
\* element before the children of an element.
Prepend(parent, tag) ==
  /\ flow.pc \in {"awaiting", "writing"}
  /\ Len(doc) < MaxNodes
  /\ parent \in Elements(doc)
  /\ doc' = Append([doc EXCEPT ![parent].kids = <<Len(doc) + 1>> \o @],
                   Element(tag, parent))
  /\ UNCHANGED <<pageVars, native, routerErrors, active, flow>>

\* Between the read and the write of the flow, a page script removes an
\* element, with its subtree, from the document; a focused element that
\* leaves the document loses the focus.
RemoveChild(e) ==
  /\ flow.pc \in {"awaiting", "writing"}
  /\ e # 1
  /\ e \in Elements(doc)
  /\ doc' = [doc EXCEPT ![doc[e].parent].kids = Without(@, e), ![e].parent = 0]
  /\ active' = IF active \in Elements(doc') THEN active ELSE 1
  /\ UNCHANGED <<pageVars, native, routerErrors, flow>>

\* The user focuses another element.
Focus(e) ==
  /\ e # active
  /\ e \in Elements(doc)
  /\ active' = e
  /\ UNCHANGED <<pageVars, native, routerErrors, doc, flow>>

\* onAction up to `await nano.open(input)`: the first injection returns the
\* selector and the value of document.activeElement.
OnActionRead ==
  /\ flow.pc = "idle"
  /\ flow' = [flow EXCEPT !.pc = "awaiting",
                          !.uniqueSelector = computeSelector(doc, active),
                          !.input = doc[active].value,
                          !.readNode = active]
  /\ native' = Append(native, NativeCall(0, 0, doc[active].value))
  /\ UNCHANGED <<pageVars, routerErrors, doc, active>>

\* The host answers: a non-zero status returns, status 0 starts the second
\* injection with the selector and the output.
OnActionResult(status, output) ==
  /\ flow.pc = "awaiting"
  /\ native' = [native EXCEPT ![Len(native)].state = "resolved"]
  /\ flow' = [flow EXCEPT !.pc = IF status # 0 THEN "done" ELSE "writing",
                          !.output = output]
  /\ UNCHANGED <<pageVars, routerErrors, doc, active>>

\* The host is unreachable: the awaited promise is rejected and onAction
\* ends with an unhandled rejection.
OnActionRejected ==
  /\ flow.pc = "awaiting"
  /\ native' = [native EXCEPT ![Len(native)].state = "rejected"]
  /\ routerErrors' = routerErrors + 1
  /\ flow' = [flow EXCEPT !.pc = "threw", !.error = "host"]
  /\ UNCHANGED <<pageVars, doc, active>>

\* The second injection (background.js:246-252).  A selector that resolves
\* to null, or to an element without setSelectionRange, makes the injected
\* function throw before it writes anything.
InjectWrite ==
  /\ flow.pc = "writing"
  /\ LET e == querySelector(doc, flow.uniqueSelector)
     IN IF e = 0 \/ doc[e].tag # "TEXTAREA"
        THEN /\ flow' = [flow EXCEPT !.pc = "threw", !.error = "write",
                                      !.found = e]
             /\ UNCHANGED doc
        ELSE /\ doc' = [doc EXCEPT ![e].value = flow.output,
                                   ![e].sel = SetSelectionRange(flow.output, doc[e].sel)]
             /\ flow' = [flow EXCEPT !.pc = "done", !.wroteNode = e,
                                      !.found = e]
  /\ UNCHANGED <<pageVars, native, routerErrors, active>>

\* Outputs of the editor in the selector based flow.
FlowTexts == {"", "ab"}

NextSelector ==
  \/ \E parent \in DOMAIN doc : \E tag \in Tags : AppendChild(parent, tag)
  \/ \E parent \in DOMAIN doc : \E tag \in Tags : Prepend(parent, tag)
  \/ \E e \in DOMAIN doc : RemoveChild(e)
  \/ \E e \in DOMAIN doc : Focus(e)
  \/ OnActionRead
  \/ \E st \in Statuses : \E out \in FlowTexts : OnActionResult(st, out)
  \/ OnActionRejected
  \/ InjectWrite

SpecSelector == InitSelector /\ [][NextSelector]_vars

(***************************************************************************)
(* One gesture in a tab of several frames (background.js:54-73): the       *)
(* toolbar action injects editTextArea into every frame, the context menu  *)
(* into the frame that was clicked.  Specification SpecFrames.             *)
(***************************************************************************)
MaxFrames == 2
Frames == 1..MaxFrames

\* Frame f + 1 is an iframe of frame f.  Each document has its own active
\* element and its own selection; the active element of a document whose
\* descendant frame has the focus is the iframe element.
Frame(k, sel, text) ==
  [kind |-> k, sel |-> sel, value |-> text, pc |-> "idle", target |-> Undefined,
   selectedText |-> Undefined, msg |-> 0, result |-> NoResult, wrote |-> Undefined]

FrameTexts == {"a"}

InitFrames ==
  /\ rev \in {"script", "bgA", "p002"}
  /\ kind = "other"
  /\ value = ""
  /\ selDir = "none"
  /\ selEnd = 0
  /\ selStart = 0
  /\ pageSel = << >>
  /\ clipboard = Undefined
  /\ effects = << >>
  /\ pasteTimer = Undefined
  /\ pastes = << >>
  /\ focusListener = Undefined
  /\ pc = "Idle"
  /\ target = Undefined
  /\ selectedText = Undefined
  /\ bound = NoBound
  /\ result = NoResult
  /\ msgs = << >>
  /\ native = << >>
  /\ routerErrors = 0
  /\ ports = << >>
  /\ userMoves = 0
  /\ snapshot = NoSnapshot
  /\ doc = << >>
  /\ active = 0
  /\ flow = [pc |-> "off"]
  /\ \E focused \in Frames :
     \E fs \in [Frames -> {Frame(k, sel, text) :
                              k \in Kinds, sel \in PageSelections, text \in FrameTexts}] :
       /\ \A g \in Frames : g < focused => fs[g].kind = "other"
       /\ tab = [gesture |-> "none", focused |-> focused, frames |-> fs]
  /\ SettingsIdle

frameVars == <<rev, domVars, sessVars, ports, userMoves, snapshot, doc, active, flow,
               storage, nano, sw, shadow, filter>>

\* background.js:54-62: executeScript with allFrames: true
onAction ==
  /\ tab.gesture = "none"
  /\ tab' = [tab EXCEPT !.gesture = "action",
                        !.frames = [f \in Frames |-> [tab.frames[f] EXCEPT !.pc = "injected"]]]
  /\ UNCHANGED <<frameVars, routerVars>>

\* background.js:65-73: executeScript with frameIds: [info.frameId]
onMenuItemClicked(frameId) ==
  /\ tab.gesture = "none"
  /\ tab' = [tab EXCEPT !.gesture = "menu", !.frames[frameId].pc = "injected"]
  /\ UNCHANGED <<frameVars, routerVars>>

\* editTextArea in one frame, up to its await.
FrameEditTextAreaStart(f) ==
  /\ tab.gesture \in {"action", "menu"}
  /\ tab.frames[f].pc = "injected"
  /\ LET fr == tab.frames[f]
         t == ResolveTarget(rev, fr.kind, fr.sel)
         input == RequestInput(rev, t, fr.value, fr.sel)
     IN IF t = "none"
        THEN /\ tab' = [tab EXCEPT !.frames[f].pc = "NoTarget", !.frames[f].target = t]
             /\ UNCHANGED msgs
        ELSE /\ msgs' = Append(msgs, OneShot("frame", EditRequest(input)))
             /\ tab' = [tab EXCEPT !.frames[f].pc = "AwaitingResult",
                                   !.frames[f].target = t,
                                   !.frames[f].selectedText = input,
                                   !.frames[f].msg = Len(msgs) + 1]
  /\ UNCHANGED <<frameVars, native, routerErrors>>

\* editTextArea in one frame, after its await; the write-back is the one of
\* WriteInput and WriteEditable, recorded here by the text it carries.
FrameEditTextAreaResume(f) ==
  /\ tab.gesture \in {"action", "menu"}
  /\ tab.frames[f].pc = "AwaitingResult"
  /\ msgs[tab.frames[f].msg].state = "answered"
  /\ msgs' = [msgs EXCEPT ![tab.frames[f].msg].state = "delivered"]
  /\ LET fr == tab.frames[f]
         res == msgs[fr.msg].response
     IN IF ShouldApply(rev, fr.target, res, fr.selectedText)
        THEN tab' = [tab EXCEPT !.frames[f].pc = "Applied",
                                !.frames[f].result = res,
                                !.frames[f].wrote = res.output,
                                !.frames[f].value = IF fr.target = "input"
                                                    THEN res.output ELSE @]
        ELSE tab' = [tab EXCEPT !.frames[f].pc = "Discarded",
                                !.frames[f].result = res]
  /\ UNCHANGED <<frameVars, native, routerErrors>>

NextFrames ==
  \/ onAction
  \/ \E f \in Frames : onMenuItemClicked(f)
  \/ \E f \in Frames : FrameEditTextAreaStart(f)
  \/ \E i \in DOMAIN msgs : OnMessage(i)
  \/ HostAnswers
  \/ HostFails
  \/ \E i \in DOMAIN msgs : ChannelClosed(i)
  \/ \E f \in Frames : FrameEditTextAreaResume(f)

SpecFrames == InitFrames /\ [][NextFrames]_vars

\* C14: one gesture, toolbar click or context-menu click, sends at most one
\* EditRequest and starts at most one invocation of the native host,
\* however many frames the tab has.
C14_OneRoundTripPerGesture ==
  /\ Cardinality({i \in DOMAIN msgs : msgs[i].from = "frame"}) <= 1
  /\ Len(native) <= 1

(***************************************************************************)
(* Lifecycle hooks and settings (background.js:10, 24-39, 129-148).        *)
(* Specification SpecSettings.                                             *)
(***************************************************************************)
MaxRuns == 2
MaxWrites == 1

\* `{ ...a, ...b }` with the precedence reversed.
ObjectSpread_DefaultsWin(a, b) ==
  [k \in DOMAIN a \cup DOMAIN b |-> IF k \in DOMAIN a THEN a[k] ELSE b[k]]

\* `{ ...a, ...b }`: the own properties of a, then those of b over them.
ObjectSpread(a, b) ==
  [k \in DOMAIN a \cup DOMAIN b |-> IF k \in DOMAIN b THEN b[k] ELSE a[k]]

\* Object.assign(target, source) keeping the target's value of a property
\* both have.
ObjectAssign_TargetWins(t, source) ==
  [k \in DOMAIN t \cup DOMAIN source |-> IF k \in DOMAIN t THEN t[k] ELSE source[k]]

\* Object.assign(target, source): every own property of source is written
\* to target; the other properties of target stay.
ObjectAssign(t, source) ==
  [k \in DOMAIN t \cup DOMAIN source |-> IF k \in DOMAIN source THEN source[k] ELSE t[k]]

\* chrome.storage.sync.set(items): the given keys are written, the others stay.
StorageSet(store, items) ==
  [k \in DOMAIN store \cup DOMAIN items |-> IF k \in DOMAIN items THEN items[k] ELSE store[k]]

\* The `changes` object of chrome.storage.onChanged: one entry, with its
\* newValue, for every key whose stored value changed.
Changes(old, new) ==
  [k \in {x \in DOMAIN new : x \notin DOMAIN old \/ old[x] # new[x]} |->
     [newValue |-> new[k]]]

\* The notifications queued for the onChanged listeners after a write.
Notify(events, old, new) ==
  IF Changes(old, new) = EmptyObject THEN events ELSE Append(events, Changes(old, new))

\* Values of the `nano` key: whole configs, and one without args.
NanoValues ==
  { NanoDefault,
    ("command" :> "vim") @@ ("args" :> << >>),
    ("command" :> "vim") }

OtherValues == {"x", "d"}

\* config.json, the bundled defaults: the `nano` key, and in some versions
\* another key.
Configs ==
  { ("nano" :> NanoDefault),
    ("nano" :> NanoDefault) @@ ("other" :> "d") }

SettingMaps ==
  { EmptyObject } \cup
  { ("nano" :> v) : v \in NanoValues } \cup
  { ("other" :> o) : o \in OtherValues } \cup
  { ("nano" :> v) @@ ("other" :> o) : v \in NanoValues, o \in OtherValues }

InitSettings ==
  /\ rev = "script"
  /\ kind = "other"
  /\ value = ""
  /\ selDir = "none"
  /\ selEnd = 0
  /\ selStart = 0
  /\ pageSel = << >>
  /\ clipboard = Undefined
  /\ effects = << >>
  /\ pasteTimer = Undefined
  /\ pastes = << >>
  /\ focusListener = Undefined
  /\ pc = "Idle"
  /\ target = Undefined
  /\ selectedText = Undefined
  /\ bound = NoBound
  /\ result = NoResult
  /\ msgs = << >>
  /\ native = << >>
  /\ routerErrors = 0
  /\ ports = << >>
  /\ userMoves = 0
  /\ snapshot = NoSnapshot
  /\ doc = << >>
  /\ active = 0
  /\ flow = [pc |-> "off"]
  /\ tab = TabOff
  /\ shadow = ShadowOff
  /\ filter = FilterOff
  /\ nano = NanoDefault
  /\ \E first \in {"install", "update"} : \E config \in Configs :
       /\ storage \in (IF first = "install" THEN {EmptyObject} ELSE SettingMaps)
       /\ sw = [hook |-> "idle", first |-> first, reason |-> "none", config |-> config,
                options |-> EmptyObject, prev |-> EmptyObject, updated |-> FALSE,
                runs |-> 0, writes |-> 0, events |-> << >>,
                startup |-> "pending", startupOptions |-> EmptyObject]

settingsFrame == <<rev, domVars, sessVars, userMoves, snapshot, doc, active, flow, tab, shadow,
                   filter>>

\* background.js:129, the call: the stored settings are read.
StartupGet ==
  /\ sw.startup = "pending"
  /\ sw' = [sw EXCEPT !.startup = "read", !.startupOptions = storage]
  /\ UNCHANGED <<settingsFrame, routerVars, storage, nano>>

\* background.js:129, the callback: Object.assign(nano, options.nano), which
\* copies nothing when options.nano is undefined.
StartupGetCallback ==
  /\ sw.startup = "read"
  /\ nano' = IF "nano" \in DOMAIN sw.startupOptions
             THEN ObjectAssign(nano, sw.startupOptions["nano"])
             ELSE nano
  /\ sw' = [sw EXCEPT !.startup = "done"]
  /\ UNCHANGED <<settingsFrame, routerVars, storage>>

\* chrome.runtime.onInstalled listener (background.js:133-143), up to the
\* first await of the hook it starts.
OnInstalled ==
  /\ sw.hook \in {"idle", "done"}
  /\ sw.runs < MaxRuns
  /\ LET reason == IF sw.runs = 0 THEN sw.first ELSE "update"
     IN sw' = [sw EXCEPT !.reason = reason, !.runs = @ + 1,
                         !.hook = IF reason = "install" THEN "installing" ELSE "reading"]
  /\ UNCHANGED <<settingsFrame, routerVars, storage, nano>>

\* onInstall (background.js:24-27)
onInstall ==
  /\ sw.hook = "installing"
  /\ storage' = StorageSet(storage, sw.config)
  /\ sw' = [sw EXCEPT !.hook = "done", !.events = Notify(@, storage, storage')]
  /\ UNCHANGED <<settingsFrame, routerVars, nano>>

\* onUpdate (background.js:30-32): the stored settings are read
onUpdateGet ==
  /\ sw.hook = "reading"
  /\ sw' = [sw EXCEPT !.hook = "writing", !.options = storage]
  /\ UNCHANGED <<settingsFrame, routerVars, storage, nano>>

\* onUpdate (background.js:33): the union is stored
onUpdateSet ==
  /\ sw.hook = "writing"
  /\ storage' = StorageSet(storage, ObjectSpread(sw.config, sw.options))
  /\ sw' = [sw EXCEPT !.hook = "done", !.events = Notify(@, storage, storage'),
                      !.prev = storage', !.updated = TRUE]
  /\ UNCHANGED <<settingsFrame, routerVars, nano>>

\* The options page (or the sync of another device) stores a value of the
\* `nano` key.
OptionsPageSets(v) ==
  /\ sw.writes < MaxWrites
  /\ storage' = StorageSet(storage, "nano" :> v)
  /\ sw' = [sw EXCEPT !.writes = @ + 1, !.events = Notify(@, storage, storage')]
  /\ UNCHANGED <<settingsFrame, routerVars, nano>>

\* The options page (or the sync of another device) removes the `nano` key:
\* the entry of the notification has an oldValue and no newValue.
OptionsPageRemoves ==
  /\ sw.writes < MaxWrites
  /\ "nano" \in DOMAIN storage
  /\ storage' = [k \in DOMAIN storage \ {"nano"} |-> storage[k]]
  /\ sw' = [sw EXCEPT !.writes = @ + 1,
                      !.events = Append(@, "nano" :> [oldValue |-> storage["nano"]])]
  /\ UNCHANGED <<settingsFrame, routerVars, nano>>

\* onOptionsChange (background.js:37-39) for the oldest notification;
\* `changes.nano.newValue` throws a TypeError when changes has no nano entry,
\* and Object.assign copies nothing from an undefined newValue.
onOptionsChange ==
  /\ sw.events # << >>
  /\ LET changes == Head(sw.events)
     IN IF "nano" \in DOMAIN changes
        THEN /\ nano' = IF "newValue" \in DOMAIN changes["nano"]
                        THEN ObjectAssign(nano, changes["nano"].newValue)
                        ELSE nano
             /\ UNCHANGED routerErrors
        ELSE /\ routerErrors' = routerErrors + 1
             /\ UNCHANGED nano
  /\ sw' = [sw EXCEPT !.events = Tail(@)]
  /\ UNCHANGED <<settingsFrame, msgs, native, ports, storage>>

NextSettings ==
  \/ StartupGet
  \/ StartupGetCallback
  \/ OnInstalled
  \/ onInstall
  \/ onUpdateGet
  \/ onUpdateSet
  \/ \E v \in NanoValues : OptionsPageSets(v)
  \/ OptionsPageRemoves
  \/ onOptionsChange
  \/ PeerSendsMessage(ActionRequest)
  \/ \E i \in DOMAIN msgs : OnMessage(i)

SpecSettings == InitSettings /\ [][NextSettings]_vars

(***************************************************************************)
(* getActiveElement through shadow roots (script.js:29-33,                 *)
(* background.js:85).  Specification SpecShadow.                           *)
(***************************************************************************)
MaxDepth == 3

\* null, as the activeElement of a root without focused element and as the
\* shadowRoot of an element without an open shadow root.
Null == 0

ShadowModes == {"none", "open", "closed"}

\* The chain of focused elements: chain[1] is document.activeElement, and
\* chain[n + 1] is the focused element of the shadow root of chain[n].  The
\* shadow root of the last element, if it has one, has no focused element
\* (the host itself has the focus).
ShadowElement(mode, k) == [mode |-> mode, kind |-> k]

\* root.activeElement, the root being the document (0) or the shadow root
\* of chain[root]
ActiveElement(chain, root) == IF root < Len(chain) THEN root + 1 ELSE Null

\* element.shadowRoot: the root of an open shadow tree, null for a closed
\* one and for an element that is no host
ShadowRoot(chain, element) == IF chain[element].mode = "open" THEN element ELSE Null

NoCall == [status |-> "none", element |-> Null]
Returned(element) == [status |-> "returned", element |-> element]
TypeError == [status |-> "TypeError", element |-> Null]

\* getActiveElement(documentOrShadowRoot); reading .shadowRoot of null throws.
RECURSIVE getActiveElement(_, _)
getActiveElement(chain, documentOrShadowRoot) ==
  LET activeElement == ActiveElement(chain, documentOrShadowRoot)
  IN IF activeElement = Null
     THEN TypeError
     ELSE IF ShadowRoot(chain, activeElement) # Null
          THEN getActiveElement(chain, ShadowRoot(chain, activeElement))
          ELSE Returned(activeElement)

InitShadow ==
  /\ rev = "script"
  /\ kind = "other"
  /\ value = ""
  /\ selDir = "none"
  /\ selEnd = 0
  /\ selStart = 0
  /\ pageSel = << >>
  /\ clipboard = Undefined
  /\ effects = << >>
  /\ pasteTimer = Undefined
  /\ pastes = << >>
  /\ focusListener = Undefined
  /\ pc = "Idle"
  /\ target = Undefined
  /\ selectedText = Undefined
  /\ bound = NoBound
  /\ result = NoResult
  /\ msgs = << >>
  /\ native = << >>
  /\ routerErrors = 0
  /\ ports = << >>
  /\ userMoves = 0
  /\ snapshot = NoSnapshot
  /\ doc = << >>
  /\ active = 0
  /\ flow = [pc |-> "off"]
  /\ tab = TabOff
  /\ storage = EmptyObject
  /\ nano = NanoDefault
  /\ sw = [hook |-> "off"]
  /\ filter = FilterOff
  /\ \E k \in Kinds : shadow = [chain |-> <<ShadowElement("none", k)>>, call |-> NoCall]

shadowFrame == <<rev, domVars, sessVars, routerVars, userMoves, snapshot, doc, active, flow,
                 tab, storage, nano, sw, filter>>

\* A page script attaches a shadow root to the innermost focused element;
\* input and textarea elements cannot host one.
AttachShadow(mode) ==
  /\ mode # "none"
  /\ shadow.chain[Len(shadow.chain)].mode = "none"
  /\ shadow.chain[Len(shadow.chain)].kind # "input"
  /\ shadow' = [chain |-> [shadow.chain EXCEPT ![Len(shadow.chain)].mode = mode],
                call |-> NoCall]
  /\ UNCHANGED shadowFrame

\* The focus moves from a host to an element of its shadow tree.
FocusInside(k) ==
  /\ Len(shadow.chain) < MaxDepth
  /\ shadow.chain[Len(shadow.chain)].mode # "none"
  /\ shadow' = [chain |-> Append(shadow.chain, ShadowElement("none", k)), call |-> NoCall]
  /\ UNCHANGED shadowFrame

\* The focus moves back to a host of the chain.
FocusHost(n) ==
  /\ n < Len(shadow.chain)
  /\ shadow' = [chain |-> SubSeq(shadow.chain, 1, n), call |-> NoCall]
  /\ UNCHANGED shadowFrame

\* `const activeElement = getActiveElement()` (script.js:35, background.js:86)
CallGetActiveElement ==
  /\ shadow.call = NoCall
  /\ shadow' = [shadow EXCEPT !.call = getActiveElement(shadow.chain, 0)]
  /\ UNCHANGED shadowFrame

NextShadow ==
  \/ \E mode \in ShadowModes : AttachShadow(mode)
  \/ \E k \in Kinds : FocusInside(k)
  \/ \E n \in 1..MaxDepth : FocusHost(n)
  \/ CallGetActiveElement

SpecShadow == InitShadow /\ [][NextShadow]_vars

\* The innermost focused element a script can reach: the first element of
\* the chain that has no open shadow root, or the last host when every
\* element of the chain has one.
RECURSIVE Innermost(_, _)
Innermost(chain, n) ==
  IF n = Len(chain) \/ chain[n].mode # "open" THEN n ELSE Innermost(chain, n + 1)

\* C19: for any nesting of shadow roots getActiveElement ends without error
\* and returns the innermost focused element, also when the shadow root of
\* a focused host has no focused element.
C19_InnermostActiveElement ==
  shadow.call # NoCall => shadow.call = Returned(Innermost(shadow.chain, 1))

(***************************************************************************)
(* Properties of the edit sessions (checked under Spec)                    *)
(***************************************************************************)
SessionMsgs == {i \in DOMAIN msgs : msgs[i].from = "session"}
Received == result # NoResult
\* Nothing of the page differs from what it was when the gesture started,
\* and no write-back is pending.
NoDomMutation ==
  /\ effects = << >>
  /\ value = snapshot.value
  /\ pageSel = snapshot.pageSel
  /\ clipboard = snapshot.clipboard
  /\ pasteTimer = Undefined
  /\ focusListener = Undefined

\* C1: whatever the revision and the target kind, a session that received a
\* result whose status is not 0 has made no DOM mutation: no value write, no
\* event, no selection change, no clipboard write, none pending.
C1_NoMutationOnFailure ==
  (Received /\ result.status # 0) => (pc = "Discarded" /\ NoDomMutation)

C1_Witness ==
  /\ pc = "Discarded"
  /\ rev = "script"
  /\ target = "input"
  /\ result.status = 1
  /\ result.output # selectedText

\* C2: a session that received status 0 and an output equal to the text it
\* sent has made no DOM mutation.
C2_NoMutationOnUnchanged ==
  (Received /\ result.status = 0 /\ result.output = selectedText) => NoDomMutation

\* C3: for an input/textarea, once a status-0 result that differs from the
\* extracted value is applied, the value is the output and the selection is
\* the one the element had before the text was extracted.
C3_SelectionPreserved ==
  (target = "input" /\ pc = "Applied" /\ result.status = 0 /\ result.output # snapshot.value)
    => (value = result.output /\ CurrentSelection = snapshot.selection)

\* Outputs that are empty or made of white space only.
BlankTexts == {"", "\n"}

\* C4: a session is Discarded, without DOM mutation, whenever the status is
\* not 0, or the output equals the input, or the output is empty or white
\* space only.
C4_DiscardedWithoutMutation ==
  (Received /\ (\/ result.status # 0
                \/ result.output = selectedText
                \/ result.output \in BlankTexts))
    => (pc = "Discarded" /\ NoDomMutation)

\* C5: a failure of the native host reaches the session as a CommandResult
\* with a non-zero status, and no exception propagates in the router or in
\* the continuation of editTextArea.
C5_FailureSurfacedAsResult ==
  \A j \in DOMAIN native :
    native[j].state = "rejected" =>
      /\ routerErrors = 0
      /\ pc # "Threw"
      /\ msgs[native[j].msg].state \in {"answered", "delivered"}
      /\ msgs[native[j].msg].response.status \notin {0, NoStatus}

NothingToEdit == kind = "other" /\ SelectionType(snapshot.pageSel) \in {"None", "Caret"}

\* C6 as stated: with nothing to edit, no EditRequest is sent and the native
\* host is not invoked.
C6_NoRequestWithoutTarget ==
  (pc # "Idle" /\ NothingToEdit) => (SessionMsgs = {} /\ native = << >>)

\* C6 as amended: with nothing to edit, script.js, part_002 and part_000 send
\* no EditRequest and never invoke the host; background.js:109-116 sends one
\* EditRequest without input, the host is invoked without input, and nothing
\* is written back.
C6_NoRequestWithoutTargetExceptBgA ==
  (pc # "Idle" /\ NothingToEdit) =>
    IF rev = "bgA"
    THEN /\ Cardinality(SessionMsgs) = 1
         /\ \A i \in SessionMsgs : msgs[i].msg = EditRequest(Undefined)
         /\ \A j \in DOMAIN native : native[j].input = Undefined
         /\ pc # "Applied"
         /\ NoDomMutation
    ELSE /\ SessionMsgs = {}
         /\ native = << >>
         /\ \A p \in DOMAIN ports : ports[p].posted = << >>
         /\ pc = "NoTarget"

C6_Witness ==
  /\ rev = "bgA"
  /\ NothingToEdit
  /\ pc = "Discarded"
  /\ Len(native) = 1
  /\ native[1].input = Undefined
  /\ result.status = 0

\* C7: a run sends at most one EditRequest; its input is the value of the
\* input/textarea, the full text of the contenteditable, or the string of
\* the range selection.
C7_RequestCarriesText ==
  /\ Cardinality(SessionMsgs) <= 1
  /\ \A i \in SessionMsgs :
       /\ target = "input" => msgs[i].msg.input = snapshot.value
       /\ target = "editable" => msgs[i].msg.input = snapshot.value
       /\ (target = "selection" /\ SelectionType(snapshot.pageSel) = "Range")
            => msgs[i].msg.input = RangeText

(***************************************************************************)
(* Properties of the router (checked under SpecRouter)                     *)
(***************************************************************************)
\* The response the router owes to a message it does not recognize.
ExpectedError(m) ==
  CASE m.type # "action" -> "Unknown request"
    [] m.action = "other" -> "Unknown action: other"
    [] m.action = Undefined -> "Unknown action: undefined"
    [] OTHER -> Undefined

Unrecognized(m) == m.type # "action" \/ m.action # "editTextArea"

\* C8: a one-shot message whose type is not "action", or whose action is not
\* "editTextArea", is answered with exactly the error payload of its case;
\* the native host is not invoked for it and the handler does not throw.
C8_UnknownMessagesAnswered ==
  \A i \in DOMAIN msgs :
    (msgs[i].state # "sent" /\ Unrecognized(msgs[i].msg)) =>
      /\ msgs[i].state = "answered"
      /\ msgs[i].response =
           [type |-> "error", message |-> ExpectedError(msgs[i].msg),
            status |-> NoStatus, output |-> Undefined]
      /\ \A j \in DOMAIN native : native[j].msg # i
      /\ routerErrors = Cardinality({j \in DOMAIN native : native[j].state = "rejected"})

C8_Witness ==
  \E i \in DOMAIN msgs :
    /\ msgs[i].msg.type = "action"
    /\ msgs[i].msg.action = "other"
    /\ msgs[i].state = "answered"
    /\ msgs[i].response.message = "Unknown action: other"

ExpectedConnectionError(name) ==
  CASE name = "bogus" -> "Unknown type of connection: bogus"
    [] name = "editor" -> "Unknown type of connection: editor"
    [] OTHER -> Undefined

\* C9: a connection whose name is not recognized receives one error message
\* when it connects and nothing afterwards, whatever is posted on it, and
\* nothing posted on it reaches the native host.
C9_UnknownConnectionInert ==
  \A p \in DOMAIN ports :
    ports[p].name # "options" =>
      /\ ports[p].state = "connecting" => ports[p].received = << >>
      /\ ports[p].state = "open" =>
           ports[p].received =
             << [type |-> "error", message |-> ExpectedConnectionError(ports[p].name),
                 status |-> NoStatus, output |-> Undefined] >>
      /\ \A j \in DOMAIN native : native[j].port # p

C9_Witness ==
  \E p \in DOMAIN ports :
    /\ ports[p].name = "editor"
    /\ ports[p].state = "open"
    /\ Len(ports[p].posted) >= 1
    /\ ports[p].routed = Len(ports[p].posted)
    /\ Len(ports[p].received) = 1

(***************************************************************************)
(* Properties of the structural selector (checked under SpecSelector)      *)
(***************************************************************************)
\* C10: in every document state, for every element of the document, the
\* selector computeSelector builds for it resolves by querySelector to that
\* element.
C10_SelectorRoundTrip ==
  \A e \in Elements(doc) : querySelector(doc, computeSelector(doc, e)) = e

\* C11: whatever focus change or DOM change happens between the read and
\* the write of the selector based flow, the write modifies the element that
\* was read, or modifies nothing without an exception; it never modifies
\* another element.
C11_WriteHitsReadNode ==
  /\ flow.wroteNode # 0 => flow.wroteNode = flow.readNode
  /\ ~(flow.error = "write" /\ flow.found = 0)

\* The effects of the session so far include the effect x.
Did(x) == \E n \in DOMAIN effects : effects[n] = x

\* C12: for a contenteditable target, a paste event is synthesized or the
\* system clipboard is written (or either is scheduled) only if the result
\* has status 0 and an output other than the text of the element.
C12_PasteOnlyOnChangedSuccess ==
  (/\ target = "editable"
   /\ \/ Did("paste") \/ Did("clipboard")
      \/ pasteTimer # Undefined \/ focusListener # Undefined)
  => /\ result.status = 0
     /\ result.output # snapshot.value

\* The order of the states of a session; Located is passed inside the step
\* that resolves the target and sends the request, and a session that found
\* no target goes back to Idle at once.
SessionOrder ==
  {<<"Idle", "NoTarget">>, <<"Idle", "AwaitingResult">>,
   <<"AwaitingResult", "Applied">>, <<"AwaitingResult", "Discarded">>}

\* A write-back has happened or is scheduled.
WroteBack ==
  \/ effects # << >>
  \/ value # snapshot.value
  \/ clipboard # snapshot.clipboard
  \/ pasteTimer # Undefined
  \/ focusListener # Undefined

\* C13: a session visits its states only in the order Idle, Located,
\* AwaitingResult, then Applied or Discarded; the target is located before
\* the request is sent, the request is sent before the native host is
\* invoked, and a write-back happens only after the result was received.
C13_SessionOrder ==
  /\ [](pc # "Idle" => target # Undefined)
  /\ [](\A j \in DOMAIN native :
          native[j].msg \in SessionMsgs =>
            /\ pc # "Idle"
            /\ msgs[native[j].msg].state # "sent")
  /\ [](pc \notin {"Idle", "NoTarget"} /\ WroteBack => Received /\ pc = "Applied")
  /\ [][pc' # pc => <<pc, pc'>> \in SessionOrder]_vars

(***************************************************************************)
(* Properties of the lifecycle hooks (checked under SpecSettings)          *)
(***************************************************************************)
\* The step in which the update hook, or the install hook, completes.
UpdateCompletes == sw.hook = "writing" /\ sw'.hook = "done"
InstallCompletes == sw.hook = "installing" /\ sw'.hook = "done"

NanoNotified ==
  /\ sw.events # << >>
  /\ sw'.events = Tail(sw.events)
  /\ "nano" \in DOMAIN Head(sw.events)
  /\ "newValue" \in DOMAIN Head(sw.events)["nano"]

NewValue == Head(sw.events)["nano"].newValue

\* The step in which an invocation of the native host starts uses the
\* command and the args of the in-memory config.
StartsWithConfig ==
  Len(native') > Len(native) =>
    /\ native'[Len(native')].command = nano["command"]
    /\ native'[Len(native')].args = nano["args"]

\* C16 as stated: a notification with a new value of the `nano` key replaces
\* the in-memory Editor Config wholesale by that value, no field of the
\* previous config surviving, and the invocations started afterwards use it.
C16_ConfigReplacedWholesale ==
  [][/\ NanoNotified => nano' = NewValue
     /\ StartsWithConfig]_vars

\* C16 (amended): a notification with a new value of the `nano` key merges
\* it into the in-memory Editor Config: every field the new value carries
\* replaces the in-memory one, a field it omits keeps its previous value,
\* and the invocations started afterwards use the merged command and args.
C16_ConfigMerged ==
  [][/\ NanoNotified =>
          /\ DOMAIN nano' = DOMAIN nano \cup DOMAIN NewValue
          /\ \A k \in DOMAIN NewValue : nano'[k] = NewValue[k]
          /\ \A k \in DOMAIN nano \ DOMAIN NewValue : nano'[k] = nano[k]
     /\ StartsWithConfig]_vars

\* A new value without args was merged, and the editor was then started with
\* the new command and the previous args.
C16_Witness ==
  /\ "nano" \in DOMAIN storage
  /\ storage["nano"] = ("command" :> "vim")
  /\ sw.events = << >>
  /\ nano = ("command" :> "vim") @@ ("args" :> <<"-e", "nano">>)
  /\ \E j \in DOMAIN native :
       native[j].command = "vim" /\ native[j].args = <<"-e", "nano">>

(***************************************************************************)
(* Properties of the contenteditable write-back (checked under Spec)       *)
(***************************************************************************)
\* C17: reading the text of a contenteditable by selecting all its children
\* leaves the user's selection as it was: when the request has been sent,
\* the ranges of the selection are those of before the read, none or one.
C17_LiveSelectionKept ==
  (/\ target = "editable"
   /\ pc = "AwaitingResult"
   /\ SessionMsgs # {})
  => pageSel = snapshot.pageSel

\* A revision that reads by selection has sent the request of a
\* contenteditable while the user had a range selected.
C17_Witness ==
  /\ ReadsBySelection(rev, target)
  /\ pc = "AwaitingResult"
  /\ SessionMsgs # {}
  /\ snapshot.pageSel = <<"range">>
  /\ pageSel = <<"range">>
  /\ selectedText = value

\* The write-back calls of script.js for a contenteditable, in their order.
EditableSteps == <<"focus", "selectAllChildren", "setTimeout", "clipboard", "paste">>

\* The session of script.js has applied a result to a contenteditable.
AppliedToEditable == rev = "script" /\ target = "editable" /\ pc = "Applied"

\* The order of the steps, the yield before the paste event, the single
\* paste event with its data, and the clipboard.
PasteSteps ==
  /\ [](AppliedToEditable =>
          /\ Len(effects) <= Len(EditableSteps)
          /\ effects = SubSeq(EditableSteps, 1, Len(effects))
          /\ Len(pastes) = (IF pasteTimer = Undefined THEN 1 ELSE 0)
          /\ clipboard = result.output
          /\ \A n \in DOMAIN pastes :
               /\ pastes[n].data = result.output
               /\ pastes[n].bubbles
               /\ pastes[n].cancelable)
  /\ [][Len(pastes') > Len(pastes) => AppliedToEditable /\ Did("selectAllChildren")]_vars

\* C18 as stated: the children are selected again, the handler yields, then
\* exactly one paste event with the output as text/plain data, bubbling and
\* cancelable, is dispatched; the output is also written to the clipboard;
\* and when the paste event is dispatched the selection still covers all
\* children of the target.
C18_PasteMeetsSelection ==
  /\ PasteSteps
  /\ [](\A n \in DOMAIN pastes : pastes[n].selection = <<"all">>)

(***************************************************************************)
(* Progress of a session: the event loop runs the listener of a message    *)
(* that arrived and the continuation of a promise that resolved; the       *)
(* native host may never answer.                                           *)
(***************************************************************************)
SpecLive ==
  /\ Spec
  /\ WF_vars(Router)
  /\ WF_vars(\E i \in DOMAIN msgs : EditTextAreaResume(i))

\* The native host has answered the request of the session.
HostAnswered ==
  \E j \in DOMAIN native : native[j].msg \in SessionMsgs /\ native[j].state = "resolved"

\* The session runs a revision that sends its request as a one-shot message.
OneShotSession == rev \in {"script", "bgA", "p002"}

\* C20: a session leaves AwaitingResult only when the result of the native
\* host is delivered: until the host answers, the request has no response
\* and nothing is written back; the response of a message, once sent, is the
\* only one; and once the host has answered, the session reaches Applied or
\* Discarded.
C20_LeavesOnlyOnResult ==
  /\ [][OneShotSession /\ pc = "AwaitingResult" /\ pc' # "AwaitingResult"
          => HostAnswered /\ result' # NoResult /\ pc' \in {"Applied", "Discarded"}]_vars
  /\ [](OneShotSession /\ pc = "AwaitingResult" /\ ~HostAnswered
          => /\ ~WroteBack
             /\ \A i \in SessionMsgs : msgs[i].state \in {"sent", "routed"}
             /\ result = NoResult)
  /\ [][\A i \in SessionMsgs :
          msgs[i].state \in {"answered", "delivered"} =>
            msgs'[i].response = msgs[i].response]_vars
  /\ (OneShotSession /\ HostAnswered) ~> (pc \in {"Applied", "Discarded"})

(***************************************************************************)
(* The port opened by the in-page editTextArea (part_000:73-98)            *)
(***************************************************************************)
\* The ports opened under the name "editor" by the in-page editTextArea.
EditorSessionPorts ==
  {p \in DOMAIN ports : ports[p].name = "editor" /\ ports[p].owner = "session"}

\* The messages a port received that are "Unknown type of connection" errors.
ConnectionErrors(p) ==
  {k \in DOMAIN ports[p].received : ports[p].received[k].type = "error"}

\* C21: a connection opened under the name "editor" by the in-page
\* editTextArea is routed to the editor handler: once it is open its messages
\* go to the editor worker's onMessage, it has received no "Unknown type of
\* connection" error, and it has received at most one CommandResult for each
\* message that was posted on it and handed to the handler.
C21_EditorPortRouted ==
  \A p \in EditorSessionPorts :
    ports[p].state = "open" =>
      /\ ports[p].handler = "editor"
      /\ ConnectionErrors(p) = {}
      /\ Len(ports[p].received) <= ports[p].routed

(***************************************************************************)
(* The filter variant of nano (nano.js:41-66), checked under SpecFilter    *)
(***************************************************************************)
\* Strings are sequences of characters here, so that join and split are
\* computed character by character.
MaxItems == 2
MaxOutput == 3

Chars == {"a", "\n", "0", "1"}
Newline == "\n"

\* The items of a list: a title, which a template may render, and an id
\* that tells apart two items of the same title.
Titles == {<< >>, <<"a">>, <<"0">>, <<"a", "\n", "a">>}
Items == [title : Titles, id : {1, 2}]
ItemLists == UNION {[1..n -> Items] : n \in 0..MaxItems}
Outputs == UNION {[1..n -> Chars] : n \in 0..MaxOutput}

\* String(index) of a small index
Digits == <<"0", "1", "2", "3">>
String(index) == <<Digits[index + 1]>>

\* The templates a caller passes: (item) => item.title and
\* (item, index) => String(index).
Templates == {"title", "index"}
template(t, item, index) == IF t = "title" THEN item.title ELSE String(index)

\* A Map is the sequence of its entries <<key, value>> in insertion order.
MapHas(map, key) == \E k \in DOMAIN map : map[k][1] = key
MapGet(map, key) == map[CHOOSE k \in DOMAIN map : map[k][1] = key][2]

\* Map.prototype.set that keeps the value a key already has.
MapSet_FirstWins(map, key, v) ==
  IF MapHas(map, key) THEN map ELSE Append(map, <<key, v>>)

\* Map.prototype.set: a key already present keeps its place and takes the
\* new value.
MapSet(map, key, v) ==
  IF MapHas(map, key)
  THEN [k \in DOMAIN map |-> IF map[k][1] = key THEN <<key, v>> ELSE map[k]]
  ELSE Append(map, <<key, v>>)

\* new Map(entries)
RECURSIVE NewMap(_)
NewMap(entries) ==
  IF entries = << >>
  THEN << >>
  ELSE LET last == entries[Len(entries)]
       IN MapSet(NewMap(SubSeq(entries, 1, Len(entries) - 1)), last[1], last[2])

\* Array.from(menu.keys())
MapKeys(map) == [k \in DOMAIN map |-> map[k][1]]

\* Array.prototype.join
RECURSIVE join(_, _)
join(strings, separator) ==
  IF strings = << >> THEN << >>
  ELSE IF Len(strings) = 1 THEN strings[1]
  ELSE strings[1] \o <<separator>> \o join(Tail(strings), separator)

\* String.prototype.split with a one-character separator
RECURSIVE split(_, _)
split(string, separator) ==
  IF string = << >>
  THEN << << >> >>
  ELSE LET rest == split(Tail(string), separator)
       IN IF Head(string) = separator
          THEN << << >> >> \o rest
          ELSE << <<Head(string)>> \o Head(rest) >> \o Tail(rest)

\* nano.js:44-47: the menu and the input handed to the host
Menu(items, t) == NewMap([i \in DOMAIN items |-> <<template(t, items[i], i - 1), items[i]>>])

\* nano.js:54-55: the selection made from the host's output
Selection(menu, output) ==
  LET keys == split(output, Newline)
      has(key) == MapHas(menu, key)
      kept == SelectSeq(keys, has)
  IN [k \in DOMAIN kept |-> MapGet(menu, kept[k])]

InitFilter ==
  /\ rev = "script"
  /\ kind = "other"
  /\ value = ""
  /\ selDir = "none"
  /\ selEnd = 0
  /\ selStart = 0
  /\ pageSel = << >>
  /\ clipboard = Undefined
  /\ effects = << >>
  /\ pasteTimer = Undefined
  /\ pastes = << >>
  /\ focusListener = Undefined
  /\ pc = "Idle"
  /\ target = Undefined
  /\ selectedText = Undefined
  /\ bound = NoBound
  /\ result = NoResult
  /\ msgs = << >>
  /\ native = << >>
  /\ routerErrors = 0
  /\ ports = << >>
  /\ userMoves = 0
  /\ snapshot = NoSnapshot
  /\ doc = << >>
  /\ active = 0
  /\ flow = [pc |-> "off"]
  /\ tab = TabOff
  /\ storage = EmptyObject
  /\ nano = NanoDefault
  /\ sw = [hook |-> "off"]
  /\ shadow = ShadowOff
  /\ \E items \in ItemLists : \E t \in Templates :
       filter = [pc |-> "idle", items |-> items, template |-> t]

filterFrame == <<rev, domVars, sessVars, routerVars, userMoves, snapshot, doc, active, flow,
                 tab, storage, nano, sw, shadow>>

\* run(items, template) of the default export, up to the await of
\* nano.js:48: the menu is built and its keys are sent to the host.
run ==
  /\ filter.pc = "idle"
  /\ LET menu == Menu(filter.items, filter.template)
     IN filter' = [pc |-> "awaiting", items |-> filter.items, template |-> filter.template,
                   menu |-> menu,
                   request |-> [command |-> "nano", args |-> << >>,
                                input |-> join(MapKeys(menu), Newline), output |-> TRUE]]
  /\ UNCHANGED filterFrame

\* The host answers with an output; nano.js:54-57 returns the selection.
FilterHostAnswers(output) ==
  /\ filter.pc = "awaiting"
  /\ filter' = [pc |-> "returned", items |-> filter.items, template |-> filter.template,
                menu |-> filter.menu, request |-> filter.request, output |-> output,
                selection |-> Selection(filter.menu, output)]
  /\ UNCHANGED filterFrame

\* chrome.runtime.sendNativeMessage rejects: the promise of nano rejects.
FilterHostFails ==
  /\ filter.pc = "awaiting"
  /\ filter' = [pc |-> "rejected", items |-> filter.items, template |-> filter.template,
                menu |-> filter.menu, request |-> filter.request]
  /\ UNCHANGED filterFrame

NextFilter ==
  \/ run
  \/ \E output \in Outputs : FilterHostAnswers(output)
  \/ FilterHostFails

SpecFilter == InitFilter /\ [][NextFilter]_vars

\* The key an item of the list renders to.
Rendered(i) == template(filter.template, filter.items[i], i - 1)

\* The lines of a string, by the places of its newlines.
NewlinesBefore(string, p) == Cardinality({q \in 1..(p - 1) : string[q] = Newline})
LineOf(string, n) ==
  LET at == {p \in DOMAIN string : NewlinesBefore(string, p) = n - 1 /\ string[p] # Newline}
  IN [k \in 1..Cardinality(at) |->
        string[CHOOSE p \in at : Cardinality({q \in at : q < p}) = k - 1]]
Lines(string) == [n \in 1..(NewlinesBefore(string, Len(string) + 1) + 1) |-> LineOf(string, n)]

\* The lines of the output that are the key of some item, in order.
IsKey(line) == \E i \in DOMAIN filter.items : Rendered(i) = line
MatchingLines == SelectSeq(Lines(filter.output), IsKey)

\* The last item of the list that renders to a key.
LaterItem(key) ==
  filter.items[CHOOSE i \in DOMAIN filter.items :
     /\ Rendered(i) = key
     /\ \A j \in DOMAIN filter.items : Rendered(j) = key => j <= i]

\* C22: the filter variant returns only items of the given list: the k-th
\* returned item is the item whose rendered key is the k-th line of the
\* host's output that is a key (lines that are no key are dropped, the order
\* of the lines is kept), and of two items of the same key the later one.
C22_FilterSelection ==
  filter.pc = "returned" =>
    /\ Len(filter.selection) = Len(MatchingLines)
    /\ \A k \in DOMAIN filter.selection :
         /\ \E i \in DOMAIN filter.items : filter.selection[k] = filter.items[i]
         /\ filter.selection[k] = LaterItem(MatchingLines[k])

C22_Witness ==
  /\ filter.pc = "returned"
  /\ Len(filter.selection) >= 1
  /\ Len(Lines(filter.output)) > Len(filter.selection)
  /\ \E i, j \in DOMAIN filter.items :
       /\ i < j
       /\ Rendered(i) = Rendered(j)
       /\ Rendered(j) # << >>
       /\ filter.items[i] # filter.items[j]
       /\ filter.selection[1] = filter.items[j]

(***************************************************************************)
(* Concurrent edit sessions (checked under SpecFrames)                     *)
(***************************************************************************)
\* The sessions of the tab that have received their result.
Delivered == {f \in Frames : tab.frames[f].pc \in {"Applied", "Discarded"}}

\* The invocations of the native host started for the request of frame f.
OwnCalls(f) == {j \in DOMAIN native : native[j].msg = tab.frames[f].msg}

\* C23: with the sessions of several frames outstanding at the same time and
\* the host answering in any order, the result a session receives is the one
\* the host gave for that session's own request (started with the input the
\* session extracted), the session applies it exactly when its own accept
\* policy holds for its own extracted input, what it writes is the output of
\* that result, and its step changes no other frame.
C23_OwnResultOwnTarget ==
  /\ [](\A f \in Delivered :
          LET fr == tab.frames[f]
          IN /\ Cardinality(OwnCalls(f)) = 1
             /\ \A j \in OwnCalls(f) :
                  /\ native[j].state = "resolved"
                  /\ native[j].input = fr.selectedText
                  /\ fr.result = native[j].result
             /\ msgs[fr.msg].msg.input = fr.selectedText
             /\ (fr.pc = "Applied") = ShouldApply(rev, fr.target, fr.result, fr.selectedText)
             /\ fr.pc = "Applied" => fr.wrote = fr.result.output
             /\ fr.pc = "Discarded" => fr.wrote = Undefined)
  /\ [](\A f \in Frames \ Delivered : tab.frames[f].wrote = Undefined)
  /\ [][\A f \in Frames :
          tab'.frames[f].pc \in {"Applied", "Discarded"} /\ tab.frames[f].pc = "AwaitingResult"
            => \A g \in Frames \ {f} : tab'.frames[g] = tab.frames[g]]_vars

\* Two sessions were outstanding together with different inputs; the one
\* that asked last was answered first and has applied its result, while the
\* request of the other is still with the host.
C23_Witness ==
  \E f, g \in Frames :
    /\ tab.frames[f].pc = "AwaitingResult"
    /\ tab.frames[g].pc = "Applied"
    /\ tab.frames[f].msg < tab.frames[g].msg
    /\ tab.frames[f].selectedText # tab.frames[g].selectedText
    /\ \E j \in OwnCalls(f) : native[j].state = "pending"
    /\ \E j \in OwnCalls(g) : native[j].state = "resolved"

(***************************************************************************)
(* The Editor Config and the synced store (checked under SpecSettings)     *)
(***************************************************************************)
\* Nothing is pending: the startup read has been applied, no hook is
\* running and every notification has been handed to onOptionsChange.
Quiescent ==
  /\ sw.startup = "done"
  /\ sw.hook \in {"idle", "done"}
  /\ sw.events = << >>

\* C24: once the startup read, the write of the install or update hook and
\* every settings-changed notification have been delivered, in whatever
\* order, the command and the args of the in-memory Editor Config are those
\* of the `nano` value persisted in the synced store (for each of the two the
\* persisted value has).
C24_ConfigMatchesStore ==
  (Quiescent /\ "nano" \in DOMAIN storage) =>
     \A k \in {"command", "args"} \cap DOMAIN storage["nano"] :
        nano[k] = storage["nano"][k]

\* The step in which onOptionsChange handles a notification that has no
\* entry for the `nano` key, or whose `nano` entry has no new value.
ForeignNotified ==
  /\ sw.events # << >>
  /\ sw'.events = Tail(sw.events)
  /\ \/ "nano" \notin DOMAIN Head(sw.events)
     \/ "newValue" \notin DOMAIN Head(sw.events)["nano"]

\* C25: a settings-changed notification without the `nano` key, or whose
\* `nano` entry has no new value, leaves the in-memory Editor Config as it
\* was, and its handler completes without an error.
C25_ForeignChangeIgnored ==
  [][ForeignNotified => nano' = nano /\ routerErrors' = routerErrors]_vars

====
